---- MODULE Spec2Model ----
(***************************************************************************)
(* The ProVisors Hub bot (src/bot/hub_bot.py), its HTTP server             *)
(* (src/server.py) and the contact harvest (src/bot/harvest_contacts.py).  *)
(*                                                                         *)
(* The server runs every request handler as an asyncio task; tasks         *)
(* interleave only at awaits that really suspend (browser calls, the       *)
(* contended lock).  One action of the model is the code a task runs       *)
(* between two such suspensions.  The portal is the environment: what a    *)
(* page reports, whether a control is found and whether a login is         *)
(* accepted are nondeterministic choices.                                  *)
(***************************************************************************)
EXTENDS Integers, FiniteSets, Sequences, TLC

\* ------------------------------------------------------------------ bounds
\* Concurrent HTTP request handlers (asyncio tasks).
Tasks == {1, 2}
\* HTTP requests served in one run of the server.
MaxRequests == 2
\* Pages the harvest loop counts before the counter saturates.
MaxHarvestPages == 4
\* Records get_my_registrations scraped before it deduplicates.
MaxEvents == 3
\* Member records one result page of search_members yields.
MaxPageMembers == 2
\* Member records the portal returns to one harvest, over all searches.
MaxHarvestRecords == 3
\* Lines of a registrations page put together from SampleLines.
MaxLines == 3
\* Characters of a field of a contact.
MaxFieldLen == 3
\* Next-page links on one result page.
MaxNextLinks == 1
\* Contacts of contacts.json when embed() runs.
MaxContacts == 2

\* -------------------------------------------------------- program constants
\* hub_bot.py:209  "if page_num > 20: break"
RegSafetyLimit == 20
\* hub_bot.py:556  "... or page_num >= 5"
MemberPageLimit == 5
\* hub_bot.py:456  "page_text[:500]"
ReturnedTextLimit == 500

\* The methods of HubBot an endpoint of server.py calls.
Extractions ==
    {"get_my_registrations", "get_upcoming_events", "search_events",
     "get_my_groups", "get_personal_snapshot", "register_for_event",
     "search_members"}
Methods == Extractions \cup {"login", "full_sync"}

\* An order that takes the registrations before the snapshot.
SyncOrder_RegistrationsFirst ==
    <<"get_my_registrations", "get_personal_snapshot", "get_upcoming_events",
      "search_events", "get_my_groups">>

\* full_sync's sub-extractions, in the order of hub_bot.py:578-582.
SyncOrder ==
    <<"get_personal_snapshot", "get_my_registrations", "get_upcoming_events",
      "search_events", "get_my_groups">>

VARIABLES
    bot,        \* server.bot: "none" | "unlaunched" (page is None) | "ready"
    bot_lock,   \* server.bot_lock: 0 when free, else the task holding it
    created,    \* number of HubBot() constructions
    launched,   \* number of completed launch() calls
    creds,      \* PROVISORS_EMAIL and PROVISORS_PASSWORD are both non-empty
    logged_in,  \* HubBot.logged_in
    url,        \* page.url: "blank" | "login" | "home" | "target"
    session,    \* the portal holds a valid session for the browser profile
    requests,   \* requests started so far
    cache_writes, \* times hub_sync_data.json has been written by the server
    th,         \* per task: the handler's position and locals (got: the
                \* HubBot instance get_bot() returned, numbered by creation)
    hpc,        \* harvest(): position in harvest_contacts.py
    hprof,      \* harvest(): index into PROFESSIONS of the current search
    hiter,      \* search_by_profession: pages parsed so far (saturating)
    hpage,      \* search_by_profession: <<currentPage, totalPages>> last parsed
    hctl,       \* search_by_profession: the search for a next-page control
                \* gave "none" (not made) | "found" | "missing"
    hlinks,     \* search_by_profession: the next-page links the page had
                \* when the search gave "missing"
    hpw,        \* harvest()'s bot: the attribute pw, "unset" | "set"
    hcontext,   \* harvest()'s bot: context, "none" (None) | "set"
    hpending,   \* harvest(): the exception in flight when the finally block
                \* is entered, "none" without one
    hexit,      \* harvest(): "running", "returned", or the exception it
                \* ended with
    all_events,    \* get_my_registrations: the records scraped, in order
    unique_events, \* get_my_registrations: the deduplicated records
    seen,          \* get_my_registrations: the keys met by the dedupe loop
    dpc,           \* get_my_registrations' dedupe: "off" | "loop" | "done"
    di,            \* the dedupe loop: records of all_events consumed
    all_members,   \* search_members: the names of the records collected
    mpage_num,     \* search_members: page_num
    mpc,           \* search_members' loop: "off" | "parse" | "next" | "done"
    hfound,        \* harvest(): the names of all records the searches returned
    hmembers,      \* harvest(): members, the names the current search returned
    hk,            \* harvest(): records of members consumed by "for m in members"
    hseen,         \* harvest(): seen
    all_contacts,  \* harvest(): the names of all_contacts
    ptext,         \* _scrape_registration_page: document.body.innerText
    plines,        \* _scrape_registration_page: lines
    pi,            \* _scrape_registration_page: i
    pevents,       \* _scrape_registration_page: events
    ppc,           \* _scrape_registration_page: "off" | "split" | "loop" | "done"
    esc_in,        \* build_js_array: the argument s of esc
    esc_out,       \* build_js_array: the value esc returned
    xpc,           \* esc: "off" | "call" | "done"
    contacts,      \* embed(): contacts, as read from contacts.json
    html,          \* embed(): html, the text of index.html
    js_block,      \* embed(): js_block
    written,       \* the text index.html has on disk
    epc            \* embed(): "off" | "read" | "place" | "write" | "done" | "exit"

svars == <<bot, bot_lock, created, launched, creds, logged_in, url, session,
           requests, cache_writes, th>>

\* The handles of harvest()'s bot and the way harvest() ends.
hbot == <<hpw, hcontext, hpending, hexit>>

hvars == <<hpc, hprof, hiter, hpage, hctl, hlinks, hbot>>

\* The record-level state of the extractions.
evars == <<all_events, unique_events, seen, dpc, di>>
mvars == <<all_members, mpage_num, mpc>>
cvars == <<hfound, hmembers, hk, hseen, all_contacts>>
pvars == <<ptext, plines, pi, pevents, ppc>>
jvars == <<esc_in, esc_out, xpc>>
bvars == <<contacts, html, js_block, written, epc>>
dvars == <<evars, mvars, cvars, pvars, jvars, bvars>>

vars == <<svars, hvars, dvars, cache_writes>>

\* The value register_for_event returns; success is "none" while nothing
\* has been returned, and a key the dict lacks is empty.
NoResult == [success |-> "none", error |-> "", page_text |-> <<>>]

\* A handler that is not running.  cta: what the search for the register
\* control gave; clicks: clicks register_for_event has made; page_text: its
\* local of that name; ret: the value it returned.  ensured: the method's
\* "await self.ensure_logged_in()" has returned; ran: the extractions whose
\* body was entered, in order; returned: those that returned their value.
\* next_ctl: what the last search for a next-page control gave, "none"
\* (not made) | "found" | "missing"; links: the next-page links the page
\* had when that search gave "missing".  exc: the message of the exception that
\* left the endpoint's body, "none" without one; status, detail: the
\* status code and the error detail of the response, 0 and "" before it.
IdleTask ==
    [pc |-> "idle", op |-> "none", cur |-> "none", page_num |-> 0,
     parsed |-> 0, lobs |-> "none", touched |-> FALSE, lres |-> "none",
     resp |-> "none", stale |-> FALSE, got |-> 0,
     cta |-> "none", clicks |-> 0, page_text |-> <<>>, ret |-> NoResult,
     ensured |-> FALSE, ran |-> <<>>, returned |-> <<>>,
     next_ctl |-> "none", links |-> {}, exc |-> "none", status |-> 0, detail |-> ""]

\* ------------------------------------------------------------------ texts
\* A text is a sequence of tokens.  In a name a token is a character: " "
\* stands for any whitespace and "A" for the upper-case form of "a".  In a
\* page text a token is a word, a blank or a punctuation mark.
Lower(c) ==
    CASE c = "A" -> "a"
      [] c = "B" -> "b"
      [] c = "Registration" -> "registration"
      [] c = "Complete" -> "complete"
      [] c = "You" -> "you"
      [] c = "Please" -> "please"
      [] OTHER -> c

\* str.lower()
lower(name) == [k \in 1..Len(name) |-> Lower(name[k])]

\* str.strip(): leading and trailing whitespace removed.
strip(name) ==
    LET inked == {k \in 1..Len(name) : name[k] # " "}
    IN  IF inked = {} THEN <<>>
        ELSE LET first == CHOOSE k \in inked : \A h \in inked : k <= h
                 last == CHOOSE k \in inked : \A h \in inked : h <= k
             IN  SubSeq(name, first, last)

\* "word in text"
Contains(text, word) ==
    \E k \in 0..(Len(text) - Len(word)) :
        SubSeq(text, k + 1, k + Len(word)) = word

\* text[:n]
Prefix(text, n) == SubSeq(text, 1, IF Len(text) < n THEN Len(text) ELSE n)

\* -------------------------------------------------- straight-line fragments
\* What a task does, without suspending, from one point of the code to the
\* next suspension: each yields the task's new record.  li is the value of
\* logged_in and b the value of bot the fragment reads.

\* The handler's "except Exception as e: raise HTTPException(500, str(e))";
\* e is the message of the exception.
Raise(r, e) ==
    [r EXCEPT !.pc = "done", !.resp = e, !.exc = e, !.status = 500,
              !.detail = e]

\* The handler returns the method's value.
Respond(r, v) == [r EXCEPT !.pc = "done", !.resp = v, !.status = 200]

\* An exception with message e leaves an endpoint function that has no
\* try block: the framework answers 500 "Internal Server Error".
Unhandled(r, e) ==
    [r EXCEPT !.pc = "done", !.resp = "Internal Server Error", !.exc = e,
              !.status = 500, !.detail = "Internal Server Error"]

\* "await self.page.goto(<target>)" of method m is issued.
NavStart(r, m, b) ==
    IF b = "ready"
    THEN [r EXCEPT !.pc = "nav", !.cur = m, !.ran = Append(@, m)]
    ELSE Raise([r EXCEPT !.ran = Append(@, m)], "AttributeError")

\* login() without the check of lines 71-72.
LoginStart_NoCredentialCheck(r, m, b) ==
    LET r0 == [r EXCEPT !.cur = m, !.lobs = "none", !.touched = FALSE,
                        !.lres = "none"]
    IN  IF b # "ready" THEN Raise(r0, "AttributeError")
        ELSE [r0 EXCEPT !.pc = "login_goto"]

\* login() is entered on behalf of m (m = "login": the endpoint itself).
\* Line 71-72 checks the credentials, line 74 issues the first goto.
LoginStart(r, m, b) ==
    LET r0 == [r EXCEPT !.cur = m, !.lobs = "none", !.touched = FALSE,
                        !.lres = "none"]
    IN  IF ~creds THEN Raise([r0 EXCEPT !.lres = "ValueError"], "ValueError")
        ELSE IF b # "ready" THEN Raise(r0, "AttributeError")
        ELSE [r0 EXCEPT !.pc = "login_goto"]

\* The body of m after "await self.ensure_logged_in()" has returned.
\* full_sync goes on to get_personal_snapshot, which ensures login again.
AfterEnsure(r, m, li, b) ==
    LET r1 == [r EXCEPT !.ensured = TRUE]
    IN  IF m = "full_sync"
        THEN IF li THEN NavStart(r1, SyncOrder[1], b)
             ELSE LoginStart(r1, SyncOrder[1], b)
        ELSE NavStart(r1, m, b)

\* ensure_logged_in() at the head of m.
ensure_logged_in(r, m, li, b) ==
    IF li THEN AfterEnsure(r, m, li, b) ELSE LoginStart(r, m, b)

\* The handler calls method m of the bot get_bot() returned.
CallMethod(r, m, li, b) ==
    IF m = "login" THEN LoginStart(r, "login", b)
    ELSE ensure_logged_in(r, m, li, b)

\* login() returns result to whoever called it: the /api/hub/login handler,
\* or ensure_logged_in, which raises when the result is False.
LoginReturn(r, result, li) ==
    LET r0 == [r EXCEPT !.lres = IF result THEN "True" ELSE "False"]
    IN  IF r.cur = "login"
        THEN Respond(r0, IF result THEN "200:True" ELSE "200:False")
        ELSE IF ~result THEN Raise(r0, "RuntimeError")
        ELSE AfterEnsure(r0, r.cur, li, "ready")

\* The sub-extraction full_sync runs after m, "none" after the last.
NextSub(m) ==
    IF \E i \in 1..(Len(SyncOrder) - 1) : SyncOrder[i] = m
    THEN SyncOrder[(CHOOSE i \in 1..(Len(SyncOrder) - 1) : SyncOrder[i] = m) + 1]
    ELSE "none"

\* Method r.cur returns its value: to full_sync, which starts the next
\* sub-extraction (the locals of r.cur are gone), or to the handler.
MethodReturn(r, li) ==
    LET r1 == [r EXCEPT !.returned = Append(@, r.cur)]
    IN  IF r.op = "full_sync" /\ NextSub(r.cur) # "none"
        THEN ensure_logged_in([r1 EXCEPT !.page_num = 0, !.parsed = 0,
                                         !.next_ctl = "none", !.links = {}],
                              NextSub(r.cur), li, "ready")
        ELSE Respond(r1, "200")

\* --------------------------------------------------------------- get_bot
\* get_bot() that constructs a bot on every call.
BotIsNone_Always == TRUE

\* "if bot is None" (server.py:42)
BotIsNone == bot = "none"

\* "async with bot_lock" can be entered (server.py:41)
LockFree == bot_lock = 0

\* embed_contacts.py is not running.
EmbedOff ==
    /\ esc_in = <<>>
    /\ esc_out = <<>>
    /\ xpc = "off"
    /\ contacts = <<>>
    /\ html = <<>>
    /\ js_block = <<>>
    /\ written = <<>>
    /\ epc = "off"

\* No extraction is working on records.
RecordsOff ==
    /\ all_events = <<>>
    /\ unique_events = <<>>
    /\ seen = {}
    /\ dpc = "off"
    /\ di = 0
    /\ all_members = <<>>
    /\ mpage_num = 0
    /\ mpc = "off"
    /\ hfound = <<>>
    /\ hmembers = <<>>
    /\ hk = 0
    /\ hseen = {}
    /\ all_contacts = <<>>
    /\ ptext = <<>>
    /\ plines = <<>>
    /\ pi = 0
    /\ pevents = <<>>
    /\ ppc = "off"

\* No record-level computation is under way.
DataOff == RecordsOff /\ EmbedOff

Init ==
    /\ DataOff
    /\ bot = "none"
    /\ bot_lock = 0
    /\ created = 0
    /\ launched = 0
    /\ creds \in BOOLEAN
    /\ logged_in = FALSE
    /\ url = "blank"
    /\ session \in BOOLEAN
    /\ requests = 0
    /\ cache_writes = 0
    /\ th = [t \in Tasks |-> IdleTask]
    /\ hpc = "off"
    /\ hprof = 0
    /\ hiter = 0
    /\ hpage = <<1, 1>>
    /\ hctl = "none"
    /\ hlinks = {}
    /\ hpw = "unset"
    /\ hcontext = "none"
    /\ hpending = "none"
    /\ hexit = "running"

\* A request arrives at the endpoint that calls method m.
Start(t, m) ==
    /\ th[t].pc \in {"idle", "done"}
    /\ requests < MaxRequests
    /\ requests' = requests + 1
    /\ th' = [th EXCEPT ![t] = [IdleTask EXCEPT !.pc = "get_bot", !.op = m,
                                   !.cur = m,
                                   !.stale = (logged_in /\ ~session)]]
    /\ UNCHANGED <<bot, bot_lock, created, launched, creds, logged_in, url,
                   session, hvars, dvars, cache_writes>>

\* get_bot() with the lock free: either the bot exists and is returned (the
\* handler goes straight on to the method), or it is constructed and
\* launch() suspends with the lock held.
GetBot(t) ==
    /\ th[t].pc = "get_bot"
    /\ LockFree
    /\ IF BotIsNone
       THEN /\ bot' = "unlaunched"
            /\ created' = created + 1
            /\ bot_lock' = t
            /\ th' = [th EXCEPT ![t].pc = "launch"]
       ELSE /\ th' = [th EXCEPT ![t] =
                        CallMethod([th[t] EXCEPT !.got = created], th[t].op,
                                   logged_in, bot)]
            /\ UNCHANGED <<bot, created, bot_lock>>
    /\ UNCHANGED <<launched, creds, logged_in, url, session, requests, hvars, dvars, cache_writes>>

\* launch() ends: the page handle is set, or it raised and the bot stays
\* assigned without a page.  Either way the lock is released.
Launch(t) ==
    /\ th[t].pc = "launch"
    /\ bot_lock' = 0
    /\ \E ok \in BOOLEAN :
        IF ok
        THEN /\ bot' = "ready"
             /\ launched' = launched + 1
             /\ th' = [th EXCEPT ![t] =
                         CallMethod([th[t] EXCEPT !.got = created], th[t].op,
                                    logged_in, "ready")]
        ELSE /\ th' = [th EXCEPT ![t] = Raise(th[t], "launch")]
             /\ UNCHANGED <<bot, launched>>
    /\ UNCHANGED <<created, creds, logged_in, url, session, requests, hvars, dvars, cache_writes>>

\* ----------------------------------------------------------------- login
\* goto(LOGIN_URL) completes: a valid session is redirected away.
LoginGoto(t) ==
    /\ th[t].pc = "login_goto"
    /\ url' = IF session THEN "home" ELSE "login"
    /\ th' = [th EXCEPT ![t].pc = "login_landed"]
    /\ UNCHANGED <<bot, bot_lock, created, launched, creds, logged_in,
                   session, requests, hvars, dvars, cache_writes>>

\* A check for the landing page instead of "not the login page".
PastLogin_HomeOnly == url = "home"

\* The page is past the login URL (hub_bot.py:78, 102).
PastLogin == url # "login"

\* After the 2 s wait: line 78 reads page.url.
LoginLanded(t) ==
    /\ th[t].pc = "login_landed"
    /\ IF PastLogin
       THEN /\ logged_in' = TRUE
            /\ th' = [th EXCEPT ![t] =
                        LoginReturn([th[t] EXCEPT !.lobs = "past"], TRUE, TRUE)]
       ELSE /\ th' = [th EXCEPT ![t].pc = "login_form", ![t].lobs = "form"]
            /\ UNCHANGED logged_in
    /\ UNCHANGED <<bot, bot_lock, created, launched, creds, url, session,
                   requests, hvars, dvars, cache_writes>>

\* Lines 83-95: fill the e-mail, fill the password, click the button.  The
\* portal accepts or rejects; with the form gone (another task navigated the
\* page) the fill times out.
LoginSubmit(t) ==
    /\ th[t].pc = "login_form"
    /\ IF url = "login"
       THEN \E accepted \in BOOLEAN :
              /\ session' = (session \/ accepted)
              /\ url' = IF accepted THEN "home" ELSE "login"
              /\ th' = [th EXCEPT ![t].pc = "login_wait", ![t].touched = TRUE]
       ELSE /\ th' = [th EXCEPT ![t] = Raise(th[t], "Timeout")]
            /\ UNCHANGED <<url, session>>
    /\ UNCHANGED <<bot, bot_lock, created, launched, creds, logged_in,
                   requests, hvars, dvars, cache_writes>>

\* login() that sets the flag before it has looked at the URL.
LoginCheck_FlagBeforeCheck(t) ==
    /\ th[t].pc = "login_wait"
    /\ logged_in' = TRUE
    /\ th' = [th EXCEPT ![t].pc = IF PastLogin THEN "login_shot_ok"
                                  ELSE "login_shot_fail",
                         ![t].lobs = IF PastLogin THEN "left" ELSE "still"]
    /\ UNCHANGED <<bot, bot_lock, created, launched, creds, url, session,
                   requests, hvars, dvars, cache_writes>>

\* Lines 98-107: after the waits, read page.url again.
LoginCheck(t) ==
    /\ th[t].pc = "login_wait"
    /\ IF PastLogin
       THEN /\ logged_in' = TRUE
            /\ th' = [th EXCEPT ![t].pc = "login_shot_ok", ![t].lobs = "left"]
       ELSE /\ th' = [th EXCEPT ![t].pc = "login_shot_fail", ![t].lobs = "still"]
            /\ UNCHANGED logged_in
    /\ UNCHANGED <<bot, bot_lock, created, launched, creds, url, session,
                   requests, hvars, dvars, cache_writes>>

\* login() that returns False without clearing the flag.
LoginShotFail_KeepsFlag(t) ==
    /\ th[t].pc = "login_shot_fail"
    /\ \E ok \in BOOLEAN :
        th' = [th EXCEPT ![t] =
                 IF ok THEN LoginReturn(th[t], FALSE, logged_in)
                 ELSE Raise([th[t] EXCEPT !.lres = "raised"], "screenshot")]
    /\ UNCHANGED <<bot, bot_lock, created, launched, creds, logged_in, url,
                   session, requests, hvars, dvars, cache_writes>>

\* Lines 103-105: screenshot("login_failed"), then the flag is cleared.
LoginShotFail(t) ==
    /\ th[t].pc = "login_shot_fail"
    /\ \E ok \in BOOLEAN :
        IF ok
        THEN /\ logged_in' = FALSE
             /\ th' = [th EXCEPT ![t] = LoginReturn(th[t], FALSE, FALSE)]
        ELSE /\ th' = [th EXCEPT ![t] =
                         Raise([th[t] EXCEPT !.lres = "raised"], "screenshot")]
             /\ UNCHANGED logged_in
    /\ UNCHANGED <<bot, bot_lock, created, launched, creds, url, session,
                   requests, hvars, dvars, cache_writes>>

\* Lines 108-109: screenshot("login_success"), return True.
LoginShotOk(t) ==
    /\ th[t].pc = "login_shot_ok"
    /\ \E ok \in BOOLEAN :
        th' = [th EXCEPT ![t] =
                 IF ok THEN LoginReturn(th[t], TRUE, logged_in)
                 ELSE Raise([th[t] EXCEPT !.lres = "raised"], "screenshot")]
    /\ UNCHANGED <<bot, bot_lock, created, launched, creds, logged_in, url,
                   session, requests, hvars, dvars, cache_writes>>

\* ----------------------------------------------------------- extractions
\* Where method m is after its goto, wait and first screenshot.
BodyPc(m) ==
    CASE m = "get_my_registrations" -> "reg_parse"
      [] m = "search_members" -> "mem_parse"
      [] m = "register_for_event" -> "evt_look"
      [] OTHER -> "scrape"

\* goto(<target>) completes; without a portal session the portal either
\* redirects to its login page or serves the target URL logged out.  Or the
\* goto times out, wherever the page has got to, and the method raises.
Nav(t) ==
    /\ th[t].pc = "nav"
    /\ \E ok \in BOOLEAN :
        IF ok
        THEN /\ url' \in (IF session THEN {"target"} ELSE {"target", "login"})
             /\ th' = [th EXCEPT ![t].pc = BodyPc(th[t].cur),
                                  ![t].page_num = 1, ![t].parsed = 0,
                                  ![t].next_ctl = "none", ![t].links = {}]
        ELSE /\ url' \in {url, "target"}
             /\ th' = [th EXCEPT ![t] = Raise(th[t], "Timeout")]
    /\ UNCHANGED <<bot, bot_lock, created, launched, creds, logged_in,
                   session, requests, hvars, dvars, cache_writes>>

\* The handler of /api/hub/sync has got full_sync's value: it writes
\* hub_sync_data.json before it returns (server.py:76-80).
SyncReturned(r) == r.op = "full_sync" /\ r.pc = "done" /\ r.resp = "200"

\* A handler that writes the file each time a sub-extraction has returned.
Scrape_WritesEachPart(t) ==
    /\ th[t].pc = "scrape"
    /\ th' = [th EXCEPT ![t] = MethodReturn([th[t] EXCEPT !.parsed = 1], logged_in)]
    /\ cache_writes' = IF th[t].op = "full_sync" THEN cache_writes + 1
                       ELSE cache_writes
    /\ UNCHANGED <<bot, bot_lock, created, launched, creds, logged_in, url,
                   session, requests, hvars, dvars>>

\* get_upcoming_events, search_events, get_my_groups, get_personal_snapshot:
\* one page.evaluate, then return.  get_my_groups is the last call of
\* full_sync: its return is full_sync's, and the handler writes the file.
Scrape(t) ==
    /\ th[t].pc = "scrape"
    /\ th' = [th EXCEPT ![t] = MethodReturn([th[t] EXCEPT !.parsed = 1], logged_in)]
    /\ cache_writes' = IF SyncReturned(th'[t]) THEN cache_writes + 1
                       ELSE cache_writes
    /\ UNCHANGED <<bot, bot_lock, created, launched, creds, logged_in, url,
                   session, requests, hvars, dvars>>

\* The links of a result page that could lead to the next page.  "text":
\* the visible text contains "Next"; "title": the title attribute is "Next";
\* "title*": the title contains "Next" and more; "number": the text is the
\* number of the next page.
NextLinks == {"text", "title", "title*", "number"}

\* The next-page links one result page may have.
NextLinkSets == {L \in SUBSET NextLinks : Cardinality(L) <= MaxNextLinks}

\* a:has-text('Next'), else a[title='Next'] (hub_bot.py:196-201);
\* search_members has the two in one selector (line 559).
HubNextFound(L) == "text" \in L \/ "title" \in L

\* A safety limit that is off by one.
RegLimitReached_OffByOne(n) == n > RegSafetyLimit + 1

\* "if page_num > 20: break" (hub_bot.py:209)
RegLimitReached(n) == n > RegSafetyLimit

\* get_my_registrations, lines 187-193: parse the page; hasNext is what the
\* page text reports.
RegParse(t) ==
    /\ th[t].pc = "reg_parse"
    /\ \E hasNext \in BOOLEAN :
        LET r == [th[t] EXCEPT !.parsed = @ + 1]
        IN  th' = [th EXCEPT ![t] =
                     IF hasNext THEN [r EXCEPT !.pc = "reg_next"]
                     ELSE MethodReturn(r, logged_in)]
    /\ UNCHANGED <<bot, bot_lock, created, launched, creds, logged_in, url,
                   session, requests, hvars, dvars, cache_writes>>

\* The step that raises when it finds no Next link.
RegNext_RaisesWhenMissing(t) ==
    /\ th[t].pc = "reg_next"
    /\ \E L \in NextLinkSets :
        LET r == [th[t] EXCEPT !.page_num = @ + 1, !.next_ctl = "found"]
        IN  th' = [th EXCEPT ![t] =
                     IF ~HubNextFound(L)
                     THEN Raise([th[t] EXCEPT !.next_ctl = "missing",
                                                 !.links = L],
                                "Timeout")
                     ELSE IF RegLimitReached(r.page_num)
                          THEN MethodReturn(r, logged_in)
                          ELSE [r EXCEPT !.pc = "reg_parse"]]
    /\ UNCHANGED <<bot, bot_lock, created, launched, creds, logged_in, url,
                   session, requests, hvars, dvars, cache_writes>>

\* Lines 196-210: find the Next link (by text, else by title), click it,
\* count the page, stop at the safety limit.
RegNext(t) ==
    /\ th[t].pc = "reg_next"
    /\ \E L \in NextLinkSets :
        LET r == [th[t] EXCEPT !.page_num = @ + 1, !.next_ctl = "found"]
        IN  th' = [th EXCEPT ![t] =
                     IF ~HubNextFound(L)
                     THEN MethodReturn([th[t] EXCEPT !.next_ctl = "missing",
                                                 !.links = L],
                                       logged_in)
                     ELSE IF RegLimitReached(r.page_num)
                          THEN MethodReturn(r, logged_in)
                          ELSE [r EXCEPT !.pc = "reg_parse"]]
    /\ UNCHANGED <<bot, bot_lock, created, launched, creds, logged_in, url,
                   session, requests, hvars, dvars, cache_writes>>

\* "page_num >= 5" (hub_bot.py:556)
MemLimitReached(n) == n >= MemberPageLimit

\* search_members, lines 505-557: parse the page.
MemParse(t) ==
    /\ th[t].pc = "mem_parse"
    /\ \E hasNext \in BOOLEAN :
        LET r == [th[t] EXCEPT !.parsed = @ + 1]
        IN  th' = [th EXCEPT ![t] =
                     IF ~hasNext \/ MemLimitReached(r.page_num)
                     THEN MethodReturn(r, logged_in)
                     ELSE [r EXCEPT !.pc = "mem_next"]]
    /\ UNCHANGED <<bot, bot_lock, created, launched, creds, logged_in, url,
                   session, requests, hvars, dvars, cache_writes>>

\* Lines 559-565: find the Next link, click it, count the page.
MemNext(t) ==
    /\ th[t].pc = "mem_next"
    /\ \E L \in NextLinkSets :
        th' = [th EXCEPT ![t] =
                 IF ~HubNextFound(L)
                 THEN MethodReturn([th[t] EXCEPT !.next_ctl = "missing",
                                                 !.links = L],
                                   logged_in)
                 ELSE [th[t] EXCEPT !.pc = "mem_parse", !.page_num = @ + 1,
                                    !.next_ctl = "found"]]
    /\ UNCHANGED <<bot, bot_lock, created, launched, creds, logged_in, url,
                   session, requests, hvars, dvars, cache_writes>>

\* ---------------------------------------------------- register_for_event
\* The words of lines 431-434 and of lines 450-452.
FirstVocabulary ==
    {<<"confirmed">>, <<"registered">>, <<"registration", " ", "complete">>,
     <<"success">>, <<"thank", " ", "you">>,
     <<"you", " ", "are", " ", "registered">>}

SecondVocabulary ==
    {<<"confirmed">>, <<"registered">>, <<"registration", " ", "complete">>,
     <<"success">>, <<"thank", " ", "you">>}

\* any(word in page_text.lower() for word in [...])
Confirmed(text, vocabulary) ==
    \E word \in vocabulary : Contains(lower(text), word)

\* What the event page may read after a click.
RegisterTexts ==
    {<<"Registration", " ", "Complete">>,
     <<"You", " ", "are", " ", "registered">>,
     <<"Please", " ", "confirm">>,
     <<>>}

\* Lines 454-458: the dict returned after a click.
ClickResult(confirmed, text) ==
    [success |-> IF confirmed THEN "True" ELSE "False", error |-> "",
     page_text |-> Prefix(text, ReturnedTextLimit)]

\* Line 421: the dict returned when there is no register control.
NoButtonResult ==
    [success |-> "False", error |-> "No Register/RSVP button found on page",
     page_text |-> <<>>]

\* register_for_event that raises when it finds no register control.
EvtLook_RaisesWhenMissing(t) ==
    /\ th[t].pc = "evt_look"
    /\ \E found \in BOOLEAN :
        th' = [th EXCEPT ![t] =
                 IF found
                 THEN [th[t] EXCEPT !.pc = "evt_clicked", !.cta = "found",
                                    !.clicks = 1]
                 ELSE Raise([th[t] EXCEPT !.cta = "missing"],
                            "RuntimeError")]
    /\ UNCHANGED <<bot, bot_lock, created, launched, creds, logged_in, url,
                   session, requests, hvars, dvars, cache_writes>>

\* Lines 413-423: look for the register control; none: screenshot and
\* return the failure; else click it.
EvtLook(t) ==
    /\ th[t].pc = "evt_look"
    /\ \E found \in BOOLEAN :
        th' = [th EXCEPT ![t] =
                 IF found
                 THEN [th[t] EXCEPT !.pc = "evt_clicked", !.cta = "found",
                                    !.clicks = 1]
                 ELSE MethodReturn([th[t] EXCEPT !.cta = "missing",
                                                 !.ret = NoButtonResult],
                                   logged_in)]
    /\ UNCHANGED <<bot, bot_lock, created, launched, creds, logged_in, url,
                   session, requests, hvars, dvars, cache_writes>>

\* The step after the first click that looks for a confirm control whatever
\* the page reads.
EvtClicked_AlwaysConfirms(t) ==
    /\ th[t].pc = "evt_clicked"
    /\ \E text \in RegisterTexts, found \in BOOLEAN :
        LET confirmed == Confirmed(text, FirstVocabulary)
            r == [th[t] EXCEPT !.page_text = text]
        IN  th' = [th EXCEPT ![t] =
                     IF found
                     THEN [r EXCEPT !.pc = "evt_confirm", !.clicks = 2]
                     ELSE MethodReturn(
                              [r EXCEPT !.ret = ClickResult(confirmed, text)],
                              logged_in)]
    /\ UNCHANGED <<bot, bot_lock, created, launched, creds, logged_in, url,
                   session, requests, hvars, dvars, cache_writes>>

\* Lines 424-445: read the page text; not confirmed and a confirm control
\* is found: click it; else return.
EvtClicked(t) ==
    /\ th[t].pc = "evt_clicked"
    /\ \E text \in RegisterTexts, found \in BOOLEAN :
        LET confirmed == Confirmed(text, FirstVocabulary)
            r == [th[t] EXCEPT !.page_text = text]
        IN  th' = [th EXCEPT ![t] =
                     IF ~confirmed /\ found
                     THEN [r EXCEPT !.pc = "evt_confirm", !.clicks = 2]
                     ELSE MethodReturn(
                              [r EXCEPT !.ret = ClickResult(confirmed, text)],
                              logged_in)]
    /\ UNCHANGED <<bot, bot_lock, created, launched, creds, logged_in, url,
                   session, requests, hvars, dvars, cache_writes>>

\* The step after the confirm click that raises when the page is still not
\* confirmed.
EvtConfirm_RaisesWhenUnconfirmed(t) ==
    /\ th[t].pc = "evt_confirm"
    /\ \E text \in RegisterTexts :
        LET confirmed == Confirmed(text, SecondVocabulary)
            r == [th[t] EXCEPT !.page_text = text]
        IN  th' = [th EXCEPT ![t] =
                     IF confirmed
                     THEN MethodReturn(
                              [r EXCEPT !.ret = ClickResult(confirmed, text)],
                              logged_in)
                     ELSE Raise(r, "RuntimeError")]
    /\ UNCHANGED <<bot, bot_lock, created, launched, creds, logged_in, url,
                   session, requests, hvars, dvars, cache_writes>>

\* Lines 446-458: after the confirm click, read the text again and return.
EvtConfirm(t) ==
    /\ th[t].pc = "evt_confirm"
    /\ \E text \in RegisterTexts :
        LET confirmed == Confirmed(text, SecondVocabulary)
            r == [th[t] EXCEPT !.page_text = text]
        IN  th' = [th EXCEPT ![t] =
                     MethodReturn(
                         [r EXCEPT !.ret = ClickResult(confirmed, text)],
                         logged_in)]
    /\ UNCHANGED <<bot, bot_lock, created, launched, creds, logged_in, url,
                   session, requests, hvars, dvars, cache_writes>>

\* The portal ends the session (idle timeout, logout elsewhere).
Expire ==
    /\ session
    /\ session' = FALSE
    /\ UNCHANGED <<bot, bot_lock, created, launched, creds, logged_in, url,
                   requests, th, hvars, dvars, cache_writes>>

Next ==
    \/ \E t \in Tasks, m \in Methods : Start(t, m)
    \/ \E t \in Tasks : GetBot(t)
    \/ \E t \in Tasks : Launch(t)
    \/ \E t \in Tasks : LoginGoto(t)
    \/ \E t \in Tasks : LoginLanded(t)
    \/ \E t \in Tasks : LoginSubmit(t)
    \/ \E t \in Tasks : LoginCheck(t)
    \/ \E t \in Tasks : LoginShotFail(t)
    \/ \E t \in Tasks : LoginShotOk(t)
    \/ \E t \in Tasks : Nav(t)
    \/ \E t \in Tasks : Scrape(t)
    \/ \E t \in Tasks : RegParse(t)
    \/ \E t \in Tasks : RegNext(t)
    \/ \E t \in Tasks : MemParse(t)
    \/ \E t \in Tasks : MemNext(t)
    \/ \E t \in Tasks : EvtLook(t)
    \/ \E t \in Tasks : EvtClicked(t)
    \/ \E t \in Tasks : EvtConfirm(t)
    \/ Expire

Spec == Init /\ [][Next]_vars

\* ------------------------------------------------- harvest_contacts.py
\* PROFESSIONS (harvest_contacts.py:24-30)
PROFESSIONS ==
    <<"Real Estate", "Banking & Finance", "Attorney", "Accountant", "Insurance">>

\* Page numbers a result page may report in "Page <n> of <m>".
PageNumbers == 1..3

HarvestInit ==
    /\ DataOff
    /\ bot = "none"
    /\ bot_lock = 0
    /\ created = 0
    /\ launched = 0
    /\ creds = TRUE
    /\ logged_in = FALSE
    /\ url = "blank"
    /\ session = FALSE
    /\ requests = 0
    /\ cache_writes = 0
    /\ th = [t \in Tasks |-> IdleTask]
    /\ hpc = "launch"
    /\ hprof = 0
    /\ hiter = 0
    /\ hpage = <<1, 1>>
    /\ hctl = "none"
    /\ hlinks = {}
    /\ hpw = "unset"
    /\ hcontext = "none"
    /\ hpending = "none"
    /\ hexit = "running"

\* How far launch() gets (hub_bot.py:40-53).  "import": the import or
\* async_playwright().start() raises, self.pw is never assigned; "pw": pw is
\* stored and launch_persistent_context raises; "context": the context is
\* stored and new_page raises; "page": launch() returns.
LaunchPoints == {"import", "pw", "context", "page"}

\* harvest(), lines 137-139: HubBot(), launch(); a launch error goes to the
\* finally block.
HLaunch ==
    /\ hpc = "launch"
    /\ \E reached \in LaunchPoints :
        /\ hpc' = IF reached = "page" THEN "login" ELSE "close"
        /\ hpw' = IF reached = "import" THEN "unset" ELSE "set"
        /\ hcontext' = IF reached \in {"context", "page"} THEN "set" ELSE "none"
        /\ hpending' = IF reached = "page" THEN "none" ELSE "launch error"
    /\ UNCHANGED <<svars, dvars, hprof, hiter, hpage, hctl, hlinks, hexit>>

\* Lines 141-149: login(); on False or an error harvest ends, else the
\* first profession is searched.
HLogin ==
    /\ hpc = "login"
    /\ \E res \in {"True", "False", "raised"} :
        /\ IF res = "True"
           THEN hpc' = "search" /\ hprof' = 1
           ELSE hpc' = "close" /\ UNCHANGED hprof
        /\ hpending' = IF res = "raised" THEN "login error" ELSE "none"
    /\ UNCHANGED <<svars, dvars, hiter, hpage, hctl, hlinks, hpw, hcontext,
                   hexit>>

\* search_by_profession, lines 90-107: open the form, select the
\* profession, click Search; the result list is empty.
HSearch ==
    /\ hpc = "search"
    /\ hpc' = "parse"
    /\ hiter' = 0
    /\ hctl' = "none"
    /\ hlinks' = {}
    /\ UNCHANGED <<svars, dvars, hprof, hpage, hbot>>

\* Lines 120-125: a link with "Next" in its text or its title, else a link
\* with the next page number as its text.
HarvestNextFound(L) ==
    "text" \in L \/ "title" \in L \/ "title*" \in L \/ "number" \in L

\* "if current >= total: break" (harvest_contacts.py:116)
LastPage(current, total) == current >= total

\* Lines 109-117: parse the page; stop on the last page.
HParse ==
    /\ hpc = "parse"
    /\ \E current \in PageNumbers, total \in PageNumbers :
        /\ hpage' = <<current, total>>
        /\ hpc' = IF LastPage(current, total) THEN "collect" ELSE "next"
    /\ hiter' = IF hiter < MaxHarvestPages THEN hiter + 1 ELSE hiter
    /\ UNCHANGED <<svars, dvars, hprof, hctl, hlinks, hbot>>

\* Lines 120-131: the Next link, else the link of the next page number;
\* none found: stop; else click and wait.
HAdvance ==
    /\ hpc = "next"
    /\ \E L \in NextLinkSets :
        IF HarvestNextFound(L)
        THEN hpc' = "parse" /\ hctl' = "found" /\ hlinks' = {}
        ELSE hpc' = "collect" /\ hctl' = "missing" /\ hlinks' = L
    /\ UNCHANGED <<svars, dvars, hprof, hiter, hpage, hbot>>

\* harvest(), lines 149-170: the members search_by_profession returned are
\* merged; on to the next profession, or to writing the output.
HCollect ==
    /\ hpc = "collect"
    /\ IF hprof < Len(PROFESSIONS)
       THEN hprof' = hprof + 1 /\ hpc' = "search"
       ELSE hpc' = "write" /\ UNCHANGED hprof
    /\ hctl' = "none"
    /\ hlinks' = {}
    /\ UNCHANGED <<svars, dvars, hiter, hpage, hbot>>

\* Lines 172-180: sort and write contacts.json.
HWrite ==
    /\ hpc = "write"
    /\ hpc' = "close"
    /\ UNCHANGED <<svars, dvars, hprof, hiter, hpage, hctl, hlinks, hbot>>

\* close() (hub_bot.py:55-59) reads self.pw, an attribute only launch()
\* assigns: on a bot without it the read raises AttributeError.
CloseRaises == hpw = "unset"

\* Lines 182-183: finally: bot.close().  An exception of close() is the one
\* harvest() ends with; else the pending one is re-raised, or harvest()
\* returns.
HClose ==
    /\ hpc = "close"
    /\ hpc' = "closed"
    /\ hexit' = IF CloseRaises THEN "AttributeError"
                ELSE IF hpending # "none" THEN hpending
                ELSE "returned"
    /\ UNCHANGED <<svars, dvars, hprof, hiter, hpage, hctl, hlinks, hpw,
                   hcontext, hpending>>

HarvestNext ==
    \/ HLaunch
    \/ HLogin
    \/ HSearch
    \/ HParse
    \/ HAdvance
    \/ HCollect
    \/ HWrite
    \/ HClose

HarvestSpec == HarvestInit /\ [][HarvestNext]_vars

\* asyncio.run(harvest()) runs the one coroutine until it ends, and every
\* browser wait it makes is bounded by a timeout: a step that can be taken
\* is taken.
FairHarvestSpec == HarvestSpec /\ WF_vars(HarvestNext)

\* ------------------------------------------ no request, no harvest running
\* The server has served nothing and the harvest has not been started.
ProcessesOff ==
    /\ bot = "none"
    /\ bot_lock = 0
    /\ created = 0
    /\ launched = 0
    /\ creds = TRUE
    /\ logged_in = FALSE
    /\ url = "blank"
    /\ session = FALSE
    /\ requests = 0
    /\ cache_writes = 0
    /\ th = [t \in Tasks |-> IdleTask]
    /\ hpc = "off"
    /\ hprof = 0
    /\ hiter = 0
    /\ hpage = <<1, 1>>
    /\ hctl = "none"
    /\ hlinks = {}
    /\ hpw = "unset"
    /\ hcontext = "none"
    /\ hpending = "none"
    /\ hexit = "running"

\* ------------------------------- get_my_registrations: the dedupe loop
\* Texts are sequences of tokens: "a", "b" are ordinary characters, "|" is
\* the bar, "W" a weekday name.  The parser trims the event name, which is
\* never empty, and accepts a start date only when it begins with a weekday
\* name (hub_bot.py:136-144).
EventNames == {<<"a">>, <<"b">>, <<"a", "|", "W">>}
StartDates == {<<"W">>, <<"W", "|", "W">>}
\* The end date stands for the fields that are not part of the key.
EndDates == {"e1", "e2"}

ScrapedEvents == [eventName : EventNames, startDate : StartDates, endDate : EndDates]

\* key = f"{evt['eventName']}|{evt['startDate']}" (hub_bot.py:220)
EventKey(evt) == evt.eventName \o <<"|">> \o evt.startDate

\* The scrape loop has ended with all_events (hub_bot.py:186-210).
DedupInit ==
    /\ ProcessesOff
    /\ EmbedOff
    /\ \E n \in 0..MaxEvents : all_events \in [1..n -> ScrapedEvents]
    /\ unique_events = <<>>
    /\ seen = {}
    /\ dpc = "loop"
    /\ di = 0
    /\ all_members = <<>>
    /\ mpage_num = 0
    /\ mpc = "off"
    /\ hfound = <<>>
    /\ hmembers = <<>>
    /\ hk = 0
    /\ hseen = {}
    /\ all_contacts = <<>>
    /\ ptext = <<>>
    /\ plines = <<>>
    /\ pi = 0
    /\ pevents = <<>>
    /\ ppc = "off"

\* One iteration of "for evt in all_events" (hub_bot.py:219-223).
DedupStep ==
    /\ dpc = "loop"
    /\ di < Len(all_events)
    /\ LET evt == all_events[di + 1]
           key == EventKey(evt)
       IN  IF key \notin seen
           THEN /\ seen' = seen \cup {key}
                /\ unique_events' = Append(unique_events, evt)
           ELSE UNCHANGED <<seen, unique_events>>
    /\ di' = di + 1
    /\ UNCHANGED <<svars, jvars, bvars, hvars, mvars, cvars, pvars, all_events, dpc>>

\* The loop is exhausted; "events": unique_events is returned (225-229).
DedupReturn ==
    /\ dpc = "loop"
    /\ di = Len(all_events)
    /\ dpc' = "done"
    /\ UNCHANGED <<svars, jvars, bvars, hvars, mvars, cvars, pvars, all_events, unique_events, seen, di>>

DedupNext ==
    \/ DedupStep
    \/ DedupReturn

DedupSpec == DedupInit /\ [][DedupNext]_vars

\* ------------------------------------------ search_members: the page loop
\* Names as page.evaluate returns them: cells[0] and lines[0] are trimmed in
\* the page (hub_bot.py:515, 532), their case is the portal's.
MemberNames == {<<"a">>, <<"A">>, <<"b">>}

\* What one page yields: the same member may be on several pages, and one
\* card may match several of the container selectors of line 509.
PageMembers ==
    UNION {[1..n -> MemberNames] : n \in 0..MaxPageMembers}

\* search_members has navigated and searched; lines 501-502.
MembersInit ==
    /\ ProcessesOff
    /\ EmbedOff
    /\ all_events = <<>>
    /\ unique_events = <<>>
    /\ seen = {}
    /\ dpc = "off"
    /\ di = 0
    /\ all_members = <<>>
    /\ mpage_num = 1
    /\ mpc = "parse"
    /\ hfound = <<>>
    /\ hmembers = <<>>
    /\ hk = 0
    /\ hseen = {}
    /\ all_contacts = <<>>
    /\ ptext = <<>>
    /\ plines = <<>>
    /\ pi = 0
    /\ pevents = <<>>
    /\ ppc = "off"

\* Lines 504-557: evaluate the page, extend all_members, stop on the last
\* page or at the page limit.
MemPageParse ==
    /\ mpc = "parse"
    /\ \E members \in PageMembers, hasNext \in BOOLEAN :
        /\ all_members' = all_members \o members
        /\ mpc' = IF ~hasNext \/ MemLimitReached(mpage_num) THEN "done"
                  ELSE "next"
    /\ UNCHANGED <<svars, jvars, bvars, hvars, evars, cvars, pvars, mpage_num>>

\* Lines 559-565: the Next link is clicked, or is missing and the loop ends.
MemPageNext ==
    /\ mpc = "next"
    /\ \E found \in BOOLEAN :
        IF found THEN mpc' = "parse" /\ mpage_num' = mpage_num + 1
        ELSE mpc' = "done" /\ UNCHANGED mpage_num
    /\ UNCHANGED <<svars, jvars, bvars, hvars, evars, cvars, pvars, all_members>>

MembersNext ==
    \/ MemPageParse
    \/ MemPageNext

\* "return all_members" (line 567) is the state mpc = "done".
MembersSpec == MembersInit /\ [][MembersNext]_vars

\* ------------------------------------------- harvest(): merging the records
\* Names as search_by_profession returns them.  PARSE_CARDS_JS trims a name
\* with String.trim and leaves out a card whose name is empty; whitespace
\* that only str.strip removes can still surround a name, or be all of it.
HarvestNames ==
    {<<" ">>, <<"a">>, <<"A">>, <<" ", "a">>, <<"A", " ">>, <<"b">>,
     <<"a", " ", "b">>}

\* Code points: whitespace sorts before the letters, upper case before lower.
Rank(c) == CASE c = " " -> 0 [] c = "A" -> 1 [] c = "B" -> 2 [] c = "a" -> 3
             [] c = "b" -> 4

\* u < v as Python compares strings: by the first position where they
\* differ; a proper prefix is less.
StrLess(u, v) ==
    \E k \in 1..(Len(v)) :
        /\ \A h \in 1..(k - 1) : h <= Len(u) /\ u[h] = v[h]
        /\ k > Len(u) \/ Rank(u[k]) < Rank(v[k])

\* list.sort(key=lambda c: c["name"].lower()): stable, ascending.
RECURSIVE SortedByLowerName(_)
SortedByLowerName(lst) ==
    IF lst = <<>> THEN <<>>
    ELSE LET rest == SortedByLowerName(SubSeq(lst, 1, Len(lst) - 1))
             c == lst[Len(lst)]
             before == SelectSeq(rest, LAMBDA x : ~StrLess(lower(c), lower(x)))
             after == SelectSeq(rest, LAMBDA x : StrLess(lower(c), lower(x)))
         IN  before \o <<c>> \o after

\* harvest() has logged in; all_contacts = [], seen = set() (lines 146-147).
MergeInit ==
    /\ DataOff
    /\ bot = "none"
    /\ bot_lock = 0
    /\ created = 0
    /\ launched = 0
    /\ creds = TRUE
    /\ logged_in = FALSE
    /\ url = "blank"
    /\ session = FALSE
    /\ requests = 0
    /\ cache_writes = 0
    /\ th = [t \in Tasks |-> IdleTask]
    /\ hpc = "search"
    /\ hprof = 1
    /\ hiter = 0
    /\ hpage = <<1, 1>>
    /\ hctl = "none"
    /\ hlinks = {}
    /\ hpw = "set"
    /\ hcontext = "set"
    /\ hpending = "none"
    /\ hexit = "running"

\* "members = await search_by_profession(bot, prof)" (line 151): the list
\* the page loop returns.
MergeSearch ==
    /\ hpc = "search"
    /\ \E n \in 0..(MaxHarvestRecords - Len(hfound)) :
        \E members \in [1..n -> HarvestNames] :
            /\ hmembers' = members
            /\ hfound' = hfound \o members
    /\ hk' = 0
    /\ hpc' = "collect"
    /\ UNCHANGED <<svars, jvars, bvars, evars, mvars, pvars, hprof, hiter, hpage, hctl, hlinks, hbot, hseen,
                   all_contacts>>

\* The loop body with a key that is trimmed but not lower-cased.
MergeMember_KeyNotLowered ==
    /\ hpc = "collect"
    /\ hk < Len(hmembers)
    /\ LET name == hmembers[hk + 1]
           key == strip(name)
       IN  IF key = <<>> \/ key \in hseen
           THEN UNCHANGED <<hseen, all_contacts>>
           ELSE /\ hseen' = hseen \cup {key}
                /\ all_contacts' = Append(all_contacts, strip(name))
    /\ hk' = hk + 1
    /\ UNCHANGED <<svars, jvars, bvars, evars, mvars, pvars, hvars, hfound, hmembers>>

\* One iteration of "for m in members" (lines 154-168).
MergeMember ==
    /\ hpc = "collect"
    /\ hk < Len(hmembers)
    /\ LET name == hmembers[hk + 1]
           key == lower(strip(name))
       IN  IF key = <<>> \/ key \in hseen
           THEN UNCHANGED <<hseen, all_contacts>>
           ELSE /\ hseen' = hseen \cup {key}
                /\ all_contacts' = Append(all_contacts, strip(name))
    /\ hk' = hk + 1
    /\ UNCHANGED <<svars, jvars, bvars, evars, mvars, pvars, hvars, hfound, hmembers>>

\* "for prof in PROFESSIONS" (line 149): the next profession, or the end of
\* the loop.
MergeNextProfession ==
    /\ hpc = "collect"
    /\ hk = Len(hmembers)
    /\ IF hprof < Len(PROFESSIONS)
       THEN hprof' = hprof + 1 /\ hpc' = "search"
       ELSE hpc' = "write" /\ UNCHANGED hprof
    /\ UNCHANGED <<svars, dvars, hiter, hpage, hctl, hlinks, hbot>>

\* Lines 172-178: sort all_contacts, write contacts.json.
MergeWrite ==
    /\ hpc = "write"
    /\ all_contacts' = SortedByLowerName(all_contacts)
    /\ hpc' = "close"
    /\ UNCHANGED <<svars, jvars, bvars, evars, mvars, pvars, hprof, hiter, hpage, hctl, hlinks, hbot, hfound,
                   hmembers, hk, hseen>>

MergeNext ==
    \/ MergeSearch
    \/ MergeMember
    \/ MergeNextProfession
    \/ MergeWrite
    \/ HClose

MergeSpec == MergeInit /\ [][MergeNext]_vars

\* ------------------------------- _scrape_registration_page: the parser
\* A text is a sequence of tokens: "\n" ends a line, " " is whitespace,
\* "," "-" "&" are themselves, "Virtual", "In-Person" and the weekday names
\* are the words the patterns spell out, any other token is ordinary text.
Weekdays ==
    {"Monday", "Tuesday", "Wednesday", "Thursday", "Friday", "Saturday",
     "Sunday"}

\* text.split('\n')
RECURSIVE SplitLines(_)
SplitLines(text) ==
    LET breaks == {k \in 1..Len(text) : text[k] = "\n"}
    IN  IF breaks = {} THEN <<text>>
        ELSE LET k == CHOOSE b \in breaks : \A c \in breaks : b <= c
             IN  <<SubSeq(text, 1, k - 1)>>
                 \o SplitLines(SubSeq(text, k + 1, Len(text)))

\* Where a greedy \s* that starts at p ends: the first position from p on
\* that holds no whitespace (Len(line) + 1 when there is none).
SkipSpaces(line, p) ==
    CHOOSE q \in p..(Len(line) + 1) :
        /\ q = Len(line) + 1 \/ line[q] # " "
        /\ \A h \in p..(q - 1) : line[h] = " "

\* (Virtual|In-Person|In-Person & Virtual) tried at p: the alternatives
\* that match there, in the order of the pattern, each with the position
\* after it.
Alternatives(line, p) ==
    LET at(k) == IF k <= Len(line) THEN line[k] ELSE "\n"
    IN  (IF at(p) = "Virtual"
         THEN <<[mode |-> <<"Virtual">>, q |-> p + 1]>> ELSE <<>>)
        \o (IF at(p) = "In-Person"
            THEN <<[mode |-> <<"In-Person">>, q |-> p + 1]>> ELSE <<>>)
        \o (IF /\ at(p) = "In-Person" /\ at(p + 1) = " " /\ at(p + 2) = "&"
               /\ at(p + 3) = " " /\ at(p + 4) = "Virtual"
            THEN <<[mode |-> <<"In-Person", " ", "&", " ", "Virtual">>,
                    q |-> p + 5]>>
            ELSE <<>>)

\* \s*-\s*(.+)$ tried at q: the text of group 3, or <<>> when it fails.
\* The last \s* gives a character back when it has eaten the whole rest.
RestMatch(line, q) ==
    LET r == SkipSpaces(line, q)
    IN  IF r > Len(line) \/ line[r] # "-" \/ r = Len(line) THEN <<>>
        ELSE LET u == SkipSpaces(line, r + 1)
             IN  IF u <= Len(line) THEN SubSeq(line, u, Len(line))
                 ELSE <<line[Len(line)]>>

NoMatch == [ok |-> FALSE, eventName |-> <<>>, location |-> <<>>, monthYear |-> <<>>]

\* The pattern with group 1 ending at k.
MatchAt(line, k) ==
    IF k + 1 > Len(line) \/ line[k + 1] # "," THEN NoMatch
    ELSE LET alts == SelectSeq(Alternatives(line, SkipSpaces(line, k + 2)),
                               LAMBDA a : RestMatch(line, a.q) # <<>>)
         IN  IF alts = <<>> THEN NoMatch
             ELSE [ok |-> TRUE, eventName |-> strip(SubSeq(line, 1, k)),
                   location |-> alts[1].mode,
                   monthYear |-> RestMatch(line, alts[1].q)]

\* line.match(/^(.+?),\s*(Virtual|In-Person|In-Person & Virtual)\s*-\s*(.+)$/)
\* with eventName = match[1].trim() (lines 131-136): group 1 is lazy, so
\* the shortest name that lets the rest match is taken.
HeaderMatch(line) ==
    LET ks == {k \in 1..Len(line) : MatchAt(line, k).ok}
    IN  IF ks = {} THEN NoMatch
        ELSE MatchAt(line, CHOOSE k \in ks : \A h \in ks : k <= h)

\* (lines[j] || '').trim()
LineAt(lines, j) == IF j <= Len(lines) THEN strip(lines[j]) ELSE <<>>

\* startDate.match(/^(Monday|...|Sunday)/) (line 144)
BeginsWithWeekday(line) == Len(line) >= 1 /\ line[1] \in Weekdays

\* Lines a page is put together from, as the page renders them.
SampleLines ==
    {<<"x", ",", " ", "Virtual", " ", "-", " ", "y">>,
     <<"x", ",", " ", "In-Person", " ", "&", " ", "Virtual", " ", "-", " ", "y">>,
     <<"x", ",", "In-Person", "-", "y">>,
     <<"x", ",", " ", "Virtual", ",", " ", "In-Person", " ", "-", " ", "y">>,
     <<"x", ",", " ", "Virtual", " ", "-">>,
     <<"Sunday", ",", " ", "Virtual", " ", "-", " ", "y">>,
     <<"Monday", ",", " ", "y">>,
     <<" ", "Friday", "s">>,
     <<"x", " ", "Monday">>,
     <<"x">>,
     <<>>}

\* The lines joined by line breaks.
RECURSIVE JoinLines(_)
JoinLines(ls) ==
    IF ls = <<>> THEN <<>>
    ELSE IF Len(ls) = 1 THEN ls[1]
    ELSE ls[1] \o <<"\n">> \o JoinLines(Tail(ls))

\* A six-line registration block, and the same block with the weekday
\* taken off its start line.
SampleBlock ==
    JoinLines(<< <<"Acme", " ", "Mixer", ",", " ", "Virtual", " ", "-", " ",
                   "June", " ", "2024">>,
                 <<"Monday", ",", " ", "June", " ", "10", ",", " ", "10:00">>,
                 <<"Monday", ",", " ", "June", " ", "10", ",", " ", "11:00">>,
                 <<"Pacific">>, <<"Mixer">>, <<"Confirmed">> >>)

SampleBlockNoWeekday ==
    JoinLines(<< <<"Acme", " ", "Mixer", ",", " ", "Virtual", " ", "-", " ",
                   "June", " ", "2024">>,
                 <<"June", " ", "10", ",", " ", "10:00">>,
                 <<"Monday", ",", " ", "June", " ", "10", ",", " ", "11:00">>,
                 <<"Pacific">>, <<"Mixer">>, <<"Confirmed">> >>)

PageTexts ==
    {JoinLines(ls) : ls \in UNION {[1..n -> SampleLines] : n \in 0..MaxLines}}
    \cup {SampleBlock, SampleBlockNoWeekday}

\* page.evaluate is entered with the text of the page (line 122).
ParseInit ==
    /\ ProcessesOff
    /\ EmbedOff
    /\ all_events = <<>>
    /\ unique_events = <<>>
    /\ seen = {}
    /\ dpc = "off"
    /\ di = 0
    /\ all_members = <<>>
    /\ mpage_num = 0
    /\ mpc = "off"
    /\ hfound = <<>>
    /\ hmembers = <<>>
    /\ hk = 0
    /\ hseen = {}
    /\ all_contacts = <<>>
    /\ ptext \in PageTexts
    /\ plines = <<>>
    /\ pi = 0
    /\ pevents = <<>>
    /\ ppc = "split"

\* "const lines = text.split('\n').map(l => l.trim())" (line 127)
ParseSplit ==
    /\ ppc = "split"
    /\ plines' = [k \in 1..Len(SplitLines(ptext)) |-> strip(SplitLines(ptext)[k])]
    /\ pi' = 0
    /\ ppc' = "loop"
    /\ UNCHANGED <<svars, jvars, bvars, hvars, evars, mvars, cvars, ptext, pevents>>

\* The loop body without the check of line 144.
ParseLine_NoWeekdayCheck ==
    /\ ppc = "loop"
    /\ pi < Len(plines)
    /\ LET i == pi + 1
           match == HeaderMatch(plines[i])
       IN  IF match.ok
           THEN pevents' = Append(pevents,
                    [eventName |-> match.eventName, location |-> match.location,
                     monthYear |-> match.monthYear,
                     startDate |-> LineAt(plines, i + 1),
                     endDate |-> LineAt(plines, i + 2),
                     timezone |-> LineAt(plines, i + 3),
                     eventType |-> LineAt(plines, i + 4),
                     guestStatus |-> LineAt(plines, i + 5)])
           ELSE UNCHANGED pevents
    /\ pi' = pi + 1
    /\ UNCHANGED <<svars, jvars, bvars, hvars, evars, mvars, cvars, ptext, plines, ppc>>

\* One iteration of "for (let i = 0; i < lines.length; i++)" (lines 129-151).
ParseLine ==
    /\ ppc = "loop"
    /\ pi < Len(plines)
    /\ LET i == pi + 1
           match == HeaderMatch(plines[i])
           startDate == LineAt(plines, i + 1)
       IN  IF match.ok /\ BeginsWithWeekday(startDate)
           THEN pevents' = Append(pevents,
                    [eventName |-> match.eventName, location |-> match.location,
                     monthYear |-> match.monthYear,
                     startDate |-> startDate,
                     endDate |-> LineAt(plines, i + 2),
                     timezone |-> LineAt(plines, i + 3),
                     eventType |-> LineAt(plines, i + 4),
                     guestStatus |-> LineAt(plines, i + 5)])
           ELSE UNCHANGED pevents
    /\ pi' = pi + 1
    /\ UNCHANGED <<svars, jvars, bvars, hvars, evars, mvars, cvars, ptext, plines, ppc>>

\* The loop is over; "return {events, ...}" (lines 164-170).
ParseReturn ==
    /\ ppc = "loop"
    /\ pi = Len(plines)
    /\ ppc' = "done"
    /\ UNCHANGED <<svars, jvars, bvars, hvars, evars, mvars, cvars, ptext, plines, pi,
                   pevents>>

ParseNext ==
    \/ ParseSplit
    \/ ParseLine
    \/ ParseReturn

ParseSpec == ParseInit /\ [][ParseNext]_vars

\* ------------------------------------- the pagination loops, side by side
\* The server process with one handler task, serving requests for the two
\* paginated extractions, next to the harvest process.
PagedMethods == {"get_my_registrations", "search_members"}

PagingInit ==
    /\ DataOff
    /\ bot = "none"
    /\ bot_lock = 0
    /\ created = 0
    /\ launched = 0
    /\ creds \in BOOLEAN
    /\ logged_in = FALSE
    /\ url = "blank"
    /\ session \in BOOLEAN
    /\ requests = 0
    /\ cache_writes = 0
    /\ th = [t \in Tasks |-> IdleTask]
    /\ hpc = "launch"
    /\ hprof = 0
    /\ hiter = 0
    /\ hpage = <<1, 1>>
    /\ hctl = "none"
    /\ hlinks = {}
    /\ hpw = "unset"
    /\ hcontext = "none"
    /\ hpending = "none"
    /\ hexit = "running"

PagingNext ==
    \/ \E m \in PagedMethods : Start(1, m)
    \/ GetBot(1)
    \/ Launch(1)
    \/ LoginGoto(1)
    \/ LoginLanded(1)
    \/ LoginSubmit(1)
    \/ LoginCheck(1)
    \/ LoginShotFail(1)
    \/ LoginShotOk(1)
    \/ Nav(1)
    \/ RegParse(1)
    \/ RegNext(1)
    \/ MemParse(1)
    \/ MemNext(1)
    \/ Expire
    \/ HarvestNext

PagingSpec == PagingInit /\ [][PagingNext]_vars

\* ------------------------------------------- embed_contacts.py: escaping
\* A field of a contact is a text of characters: the backslash, the single
\* quote, and the ordinary characters "a" and "n".
FieldChars == {"\\", "'", "a", "n"}

FieldTexts == UNION {[1..n -> FieldChars] : n \in 0..MaxFieldLen}

\* str.replace(old, new), old one character long.
RECURSIVE replace(_, _, _)
replace(s, old, new) ==
    IF s = <<>> THEN <<>>
    ELSE (IF Head(s) = old THEN new ELSE <<Head(s)>>)
         \o replace(Tail(s), old, new)

\* An esc that escapes the quotes before it doubles the backslashes.
esc_QuoteFirst(s) ==
    replace(replace(s, "'", <<"\\", "'">>), "\\", <<"\\", "\\">>)

\* esc (embed_contacts.py:28-29)
esc(s) ==
    replace(replace(s, "\\", <<"\\", "\\">>), "'", <<"\\", "'">>)

\* build_js_array is about to format a field (line 31).
EscInit ==
    /\ ProcessesOff
    /\ RecordsOff
    /\ esc_in \in FieldTexts
    /\ esc_out = <<>>
    /\ xpc = "call"
    /\ contacts = <<>>
    /\ html = <<>>
    /\ js_block = <<>>
    /\ written = <<>>
    /\ epc = "off"

\* The call esc(c[<field>]).
EscCall ==
    /\ xpc = "call"
    /\ esc_out' = esc(esc_in)
    /\ xpc' = "done"
    /\ UNCHANGED <<svars, hvars, evars, mvars, cvars, pvars, bvars, esc_in>>

EscNext == EscCall

EscSpec == EscInit /\ [][EscNext]_vars

\* --------------------------------------------- embed_contacts.py: embed()
\* In the page text and in the array literal a token is a character of a
\* field, a line feed, or a fixed piece of text: a marker, the anchor
\* comment, the text "x" of the rest of the page, or a piece of the format
\* string of line 31.
START_MARKER == "// -- Embedded Contacts (auto-generated) --"
END_MARKER == "// -- End Embedded Contacts --"
anchor == "// -- Groups Data --"

\* A contact of contacts.json: harvest() writes every field as a string.
\* The fields other than the name are fixed texts here.
Contacts ==
    [name : FieldTexts, company : {<<"a">>}, profession : {<<>>},
     groups : {<<"a">>}, notes : {<<>>}, added : {<<"n">>}]

ContactLists == UNION {[1..n -> Contacts] : n \in 0..MaxContacts}

\* One element of lines (embed_contacts.py:30-32).
ArrayLine(c) ==
    <<"  {name:'">> \o esc(c.name) \o <<"',company:'">> \o esc(c.company)
    \o <<"',profession:'">> \o esc(c.profession) \o <<"',groups:'">>
    \o esc(c.groups) \o <<"',notes:'">> \o esc(c.notes)
    \o <<"',source:'hub',added:'">> \o esc(c.added) \o <<"'}">>

\* ",\n".join(lines)
RECURSIVE JoinArrayLines(_)
JoinArrayLines(cs) ==
    IF cs = <<>> THEN <<>>
    ELSE IF Len(cs) = 1 THEN ArrayLine(cs[1])
    ELSE ArrayLine(cs[1]) \o <<",", "\n">> \o JoinArrayLines(Tail(cs))

\* build_js_array (embed_contacts.py:23-33)
build_js_array(cs) ==
    <<"const EMBEDDED_CONTACTS = [", "\n">> \o JoinArrayLines(cs)
    \o <<"\n", "];">>

\* js_block (line 46)
JsBlock(cs) ==
    <<START_MARKER, "\n">> \o build_js_array(cs) \o <<"\n", END_MARKER>>

\* "x in html" for a marker or the anchor
In(x, text) == \E i \in 1..Len(text) : text[i] = x

\* The position of the first x in text at or after position from; 0: none.
Find(x, text, from) ==
    IF \E i \in from..Len(text) : text[i] = x
    THEN CHOOSE i \in from..Len(text) :
             text[i] = x /\ \A j \in from..(i - 1) : text[j] # x
    ELSE 0

\* How re.sub reads its replacement string: a backslash and the character
\* after it are one escape.  "\\" is a backslash, "\n" a line feed, "\a"
\* the bell; an escape that is not a letter stays as it is written.
RECURSIVE expand_template(_)
expand_template(repl) ==
    IF repl = <<>> THEN <<>>
    ELSE IF Head(repl) = "\\" /\ Len(repl) >= 2
         THEN (CASE repl[2] = "\\" -> <<"\\">>
                 [] repl[2] = "n" -> <<"\n">>
                 [] repl[2] = "a" -> <<"BEL">>
                 [] OTHER -> <<"\\", repl[2]>>)
              \o expand_template(SubSeq(repl, 3, Len(repl)))
         ELSE <<Head(repl)>> \o expand_template(Tail(repl))

\* The text re.sub puts in the place of a match.
Replacement(repl) == expand_template(repl)

\* re.sub(re.escape(START_MARKER) + ".*?" + re.escape(END_MARKER), repl,
\* text, flags=re.DOTALL): every stretch from a start marker to the first
\* end marker after it is replaced (line 50-51).
RECURSIVE re_sub(_, _)
re_sub(repl, text) ==
    LET i == Find(START_MARKER, text, 1)
        j == IF i = 0 THEN 0 ELSE Find(END_MARKER, text, i + 1)
    IN  IF i = 0 \/ j = 0 THEN text
        ELSE SubSeq(text, 1, i - 1) \o Replacement(repl)
             \o re_sub(repl, SubSeq(text, j + 1, Len(text)))

\* index.html before a first run: with the anchor comment, or without it.
FreshPages == {<<"x", anchor, "x">>, <<"x">>}

\* index.html as a run of embed() on a fresh page with no contact left it.
EmbeddedPages ==
    {replace(p, anchor, JsBlock(<<>>) \o <<"\n", "\n", anchor>>) :
        p \in {q \in FreshPages : In(anchor, q)}}

\* embed() is started.
EmbedInit ==
    /\ ProcessesOff
    /\ RecordsOff
    /\ esc_in = <<>>
    /\ esc_out = <<>>
    /\ xpc = "off"
    /\ contacts = <<>>
    /\ html = <<>>
    /\ js_block = <<>>
    /\ written \in FreshPages \cup EmbeddedPages
    /\ epc = "read"

\* Lines 37-46: without contacts.json exit(1); else read it and the page
\* and build the block.
EmbedRead ==
    /\ epc = "read"
    /\ \/ /\ epc' = "exit"
          /\ UNCHANGED <<contacts, html, js_block>>
       \/ \E cs \in ContactLists :
            /\ contacts' = cs
            /\ html' = written
            /\ js_block' = JsBlock(cs)
            /\ epc' = "place"
    /\ UNCHANGED <<svars, hvars, evars, mvars, cvars, pvars, jvars, written>>

\* Lines 48-60: replace the delimited block, or insert the block before
\* the anchor, or exit(1) when the page has neither.
EmbedPlace ==
    /\ epc = "place"
    /\ IF In(START_MARKER, html) /\ In(END_MARKER, html)
       THEN /\ html' = re_sub(js_block, html)
            /\ epc' = "write"
       ELSE IF ~In(anchor, html)
            THEN /\ epc' = "exit"
                 /\ UNCHANGED html
            ELSE /\ html' = replace(html, anchor,
                                    js_block \o <<"\n", "\n", anchor>>)
                 /\ epc' = "write"
    /\ UNCHANGED <<svars, hvars, evars, mvars, cvars, pvars, jvars, contacts,
                   js_block, written>>

\* Line 62: INDEX_FILE.write_text(html).
EmbedWrite ==
    /\ epc = "write"
    /\ written' = html
    /\ epc' = "done"
    /\ UNCHANGED <<svars, hvars, evars, mvars, cvars, pvars, jvars, contacts,
                   html, js_block>>

EmbedNext ==
    \/ EmbedRead
    \/ EmbedPlace
    \/ EmbedWrite

EmbedSpec == EmbedInit /\ [][EmbedNext]_vars

\* --------------------------------------- server.py: the cached snapshot
\* GET /api/hub/cached (server.py:167-173).  The handler awaits nothing, so
\* it runs in one piece: without the file it answers with the error dict;
\* else it reads and parses the file, and read_text or json.loads may raise
\* (the file cannot be read, or is not the JSON a completed write leaves).
hub_cached(t) ==
    /\ th[t].pc \in {"idle", "done"}
    /\ requests < MaxRequests
    /\ requests' = requests + 1
    /\ LET r == [IdleTask EXCEPT !.op = "cached", !.cur = "cached"]
       IN  IF cache_writes = 0
           THEN th' = [th EXCEPT ![t] = Respond(r, "200:No cached data")]
           ELSE \E ok \in BOOLEAN :
                  th' = [th EXCEPT ![t] =
                           IF ok THEN Respond(r, "200")
                           ELSE Unhandled(r, "OSError")]
    /\ UNCHANGED <<bot, bot_lock, created, launched, creds, logged_in, url,
                   session, hvars, dvars, cache_writes>>

\* The server with task 1 serving /api/hub/sync and task 2 serving
\* /api/hub/cached.
CacheNext ==
    \/ Start(1, "full_sync")
    \/ hub_cached(2)
    \/ GetBot(1)
    \/ Launch(1)
    \/ LoginGoto(1)
    \/ LoginLanded(1)
    \/ LoginSubmit(1)
    \/ LoginCheck(1)
    \/ LoginShotFail(1)
    \/ LoginShotOk(1)
    \/ Nav(1)
    \/ Scrape(1)
    \/ RegParse(1)
    \/ RegNext(1)
    \/ Expire

CacheSpec == Init /\ [][CacheNext]_vars

\* ================================================================ claims

\* Task t is inside an operation on the shared page: between the first
\* navigation the operation issued and its return.
InOperation(t) == th[t].pc \notin {"idle", "get_bot", "launch", "done"}

\* Task t is reading the page its method navigated to.
Scraping(t) ==
    th[t].pc \in {"scrape", "reg_parse", "reg_next", "mem_parse", "mem_next",
                  "evt_look", "evt_clicked", "evt_confirm"}

\* C1: concurrent requests never interleave on the shared page: at every
\* moment at most one operation is between its first navigation and its
\* return.
C1_OperationsSerialized ==
    Cardinality({t \in Tasks : InOperation(t)}) <= 1

\* C2: whatever the portal reports, one get_my_registrations call parses at
\* most 20 pages and one search_members call at most 5, and after the last
\* of them the loop is left.
C2_PageBounds ==
    \A t \in Tasks :
        /\ th[t].cur = "get_my_registrations" =>
              /\ th[t].parsed <= 20
              /\ th[t].pc = "reg_parse" => th[t].parsed < 20
        /\ th[t].cur = "search_members" =>
              /\ th[t].parsed <= 5
              /\ th[t].pc = "mem_parse" => th[t].parsed < 5

\* C2 witness: both loops were ended by their bound and the calls returned.
C2_Witness ==
    \E t \in Tasks, u \in Tasks :
        /\ th[t].pc = "done" /\ th[t].resp = "200"
        /\ th[t].cur = "get_my_registrations" /\ th[t].parsed = 20
        /\ th[u].pc = "done" /\ th[u].resp = "200"
        /\ th[u].cur = "search_members" /\ th[u].parsed = 5

\* C3: the loop of search_by_profession ends, also when every page reports
\* currentPage < totalPages and a next link is always found: every
\* search that was started returns its members.
C3_HarvestTerminates == (hpc = "search") ~> (hpc = "collect")

C5_RedirectedLoginSucceeds ==
    [][\A t \in Tasks :
          (th[t].pc = "login_landed" /\ th'[t] # th[t] /\ url # "login")
          => /\ th'[t].lres = "True"
             /\ logged_in'
             /\ ~th'[t].touched
             /\ th'[t].pc \notin {"login_form", "login_wait", "login_shot_ok",
                                  "login_shot_fail"}]_vars

\* C5 witness: such a login has returned.
C5_Witness ==
    \E t \in Tasks :
        th[t].lobs = "past" /\ th[t].lres = "True" /\ ~th[t].touched /\ logged_in

\* C6: every extraction and full_sync call ensure_logged_in first: the goto
\* of a target page is issued only while logged_in is true; with logged_in
\* true at the call the goto is issued without any login step; and a login
\* that returns False makes the operation raise, with no goto.
C6_EnsureLoggedInFirst ==
    [][\A t \in Tasks :
          /\ (th'[t].pc = "nav" /\ th[t].pc # "nav") => logged_in'
          /\ (th[t].pc \in {"get_bot", "launch"} /\ InOperation(t)' /\ logged_in
              /\ th[t].op # "login") => th'[t].pc = "nav"
          /\ (th[t].lres # "False" /\ th'[t].lres = "False" /\ th[t].cur # "login")
             => (th'[t].pc = "done" /\ th'[t].resp = "RuntimeError")]_vars

\* C7: logged_in starts False and changes only in a step of login(): to True
\* in a step that read a page URL other than the login URL, to False in the
\* step after the failure screenshot.
C7_FlagWrittenByLoginOnly ==
    /\ ~logged_in
    /\ [][logged_in' # logged_in =>
            \E t \in Tasks :
                /\ th'[t] # th[t]
                /\ \/ /\ th[t].pc \in {"login_landed", "login_wait"}
                      /\ url # "login"
                      /\ logged_in'
                   \/ /\ th[t].pc = "login_shot_fail"
                      /\ ~logged_in']_vars

\* C7 witness: the flag is set after a submitted login left the login URL.
C7_Witness ==
    logged_in /\ \E t \in Tasks : th[t].lobs = "left" /\ th[t].lres = "True"

\* C8: a call that starts after the portal session expired (logged_in still
\* true from an earlier login) has checked the login state, in that call,
\* before it reads a target page.
C8_ReverifiesAfterExpiry ==
    \A t \in Tasks : (th[t].stale /\ Scraping(t)) => th[t].lobs # "none"

\* C9: with an empty identifier or secret no browser action ever happens and
\* logged_in stays False: every call that reaches login() ends with the
\* configuration error.
C9_MissingCredentialsFailFast ==
    ~creds =>
        /\ url = "blank"
        /\ ~logged_in
        /\ \A t \in Tasks :
              /\ ~InOperation(t)
              /\ ~th[t].touched
              /\ th[t].resp \in {"none", "launch", "ValueError"}
              /\ (th[t].pc = "done" /\ th[t].resp # "launch")
                    => th[t].lres = "ValueError"

\* C9 witness: an extraction and a login request were both answered with
\* the configuration error.
C9_Witness ==
    \E t \in Tasks, u \in Tasks :
        /\ th[t].op \in Extractions /\ th[t].resp = "ValueError"
        /\ th[u].op = "login" /\ th[u].resp = "ValueError"

\* C10: at most one HubBot is constructed and launched, and every handler
\* that got a bot from get_bot() got that one.
C10_SingleBot ==
    /\ created <= 1
    /\ launched <= 1
    /\ \A t \in Tasks, u \in Tasks :
          (th[t].got # 0 /\ th[u].got # 0) => th[t].got = th[u].got

\* C10 witness: two handlers hold the bot after one construction and one
\* launch, one of them having waited for the lock.
C10_Witness ==
    /\ created = 1 /\ launched = 1
    /\ \A t \in Tasks : th[t].got = 1 /\ InOperation(t)

\* Records a and b have the same (eventName, startDate) pair.
SamePair(a, b) == a.eventName = b.eventName /\ a.startDate = b.startDate

\* Sequence u is s with some elements left out.
IsSubSeq(u, s) ==
    \E f \in [1..Len(u) -> 1..Len(s)] :
        /\ \A k \in 1..Len(u) : u[k] = s[f[k]]
        /\ \A k \in 1..(Len(u) - 1) : f[k] < f[k + 1]

\* C11: when get_my_registrations returns, of the scraped records that
\* share an (eventName, startDate) pair the result holds the first scraped
\* one and no other, and the result is in scrape order.
C11_FirstOfIdenticalPairsKept ==
    dpc = "done" =>
        /\ IsSubSeq(unique_events, all_events)
        /\ \A i \in 1..Len(all_events), j \in 1..Len(all_events) :
              (/\ i < j
               /\ SamePair(all_events[i], all_events[j])
               /\ \A h \in 1..(i - 1) : ~SamePair(all_events[h], all_events[i]))
              => SelectSeq(unique_events,
                           LAMBDA e : SamePair(e, all_events[i]))
                 = <<all_events[i]>>

\* The identity key of a member record: its name, trimmed and lower-cased.
MemberKey(name) == lower(strip(name))

\* C12: the list one search_members call returns holds no two records with
\* the same identity key.
C12_MemberKeysUnique ==
    mpc = "done" =>
        \A i \in 1..Len(all_members), j \in 1..Len(all_members) :
            MemberKey(all_members[i]) = MemberKey(all_members[j]) => i = j

\* The records of hfound that harvest() has consumed so far.
Consumed == Len(hfound) - (Len(hmembers) - hk)

\* C13: at every point of harvest(), for every record consumed whose
\* trimmed name is not empty, all_contacts holds exactly one contact with
\* that identity key, and it carries the trimmed name of the first record
\* consumed with the key; no contact has an empty name.
C13_OnePerNameFirstWins ==
    /\ \A i \in 1..Consumed :
          MemberKey(hfound[i]) # <<>> =>
              LET first == CHOOSE j \in 1..i :
                              /\ MemberKey(hfound[j]) = MemberKey(hfound[i])
                              /\ \A h \in 1..(j - 1) :
                                    MemberKey(hfound[h]) # MemberKey(hfound[i])
              IN  SelectSeq(all_contacts,
                            LAMBDA c : MemberKey(c) = MemberKey(hfound[i]))
                  = <<strip(hfound[first])>>
    /\ \A k \in 1..Len(all_contacts) : strip(all_contacts[k]) # <<>>

\* C13 witness: the output is written after "A " and then " a" were
\* consumed, and after a whitespace-only name was.
C13_Witness ==
    /\ hpc = "closed"
    /\ \E i \in 1..Len(hfound), j \in 1..Len(hfound), e \in 1..Len(hfound) :
          /\ i < j
          /\ hfound[i] = <<"A", " ">>
          /\ hfound[j] = <<" ", "a">>
          /\ strip(hfound[e]) = <<>>
    /\ all_contacts = <<<<"A">>>>

\* The three location modes a header may name.
LocationModes ==
    {<<"Virtual">>, <<"In-Person">>, <<"In-Person", " ", "&", " ", "Virtual">>}

\* Positions a..b of line hold whitespace only.
Blank(line, a, b) == \A h \in a..b : line[h] = " "

\* line reads <name>, <mode> - <rest>: a name, a comma, a location mode, a
\* dash and a rest, with any whitespace around the mode and the dash.
HasHeaderForm(line) ==
    \E k \in 1..(Len(line) - 1), p \in 1..Len(line), r \in 1..Len(line),
       mode \in LocationModes :
        /\ line[k + 1] = ","
        /\ k + 1 < p
        /\ Blank(line, k + 2, p - 1)
        /\ p + Len(mode) <= r
        /\ SubSeq(line, p, p + Len(mode) - 1) = mode
        /\ Blank(line, p + Len(mode), r - 1)
        /\ line[r] = "-"
        /\ r < Len(line)

\* The records the claim has lines i.. of a page yield: the start date, end
\* date, timezone, type and guest status of every accepted header, in order.
RECURSIVE ClaimedRecords(_, _)
ClaimedRecords(lines, i) ==
    LET line(j) == IF j <= Len(lines) THEN lines[j] ELSE <<>>
    IN  IF i > Len(lines) THEN <<>>
        ELSE (IF HasHeaderForm(lines[i]) /\ BeginsWithWeekday(line(i + 1))
              THEN <<[startDate |-> line(i + 1), endDate |-> line(i + 2),
                      timezone |-> line(i + 3), eventType |-> line(i + 4),
                      guestStatus |-> line(i + 5)]>>
              ELSE <<>>)
             \o ClaimedRecords(lines, i + 1)

\* C14: when the parser returns, its records are, in order, those of the
\* lines i that have the header form and are followed by a line that begins
\* with a weekday, with the five fields taken from lines i+1..i+5; every
\* record names a location mode and a non-empty event; the six-line block
\* yields one record and the block without the weekday none.
C14_RecordPerAcceptedHeader ==
    ppc = "done" =>
        /\ [k \in 1..Len(pevents) |->
              [startDate |-> pevents[k].startDate,
               endDate |-> pevents[k].endDate,
               timezone |-> pevents[k].timezone,
               eventType |-> pevents[k].eventType,
               guestStatus |-> pevents[k].guestStatus]]
           = ClaimedRecords(plines, 1)
        /\ \A k \in 1..Len(pevents) :
              /\ pevents[k].location \in LocationModes
              /\ pevents[k].eventName # <<>>
              /\ pevents[k].monthYear # <<>>
        /\ ptext = SampleBlock => Len(pevents) = 1
        /\ ptext = SampleBlockNoWeekday => pevents = <<>>

\* C14 witness: the six-line block has been parsed into its one record.
C14_Witness ==
    /\ ppc = "done"
    /\ ptext = SampleBlock
    /\ Len(pevents) = 1
    /\ pevents[1].eventName = <<"Acme", " ", "Mixer">>
    /\ pevents[1].location = <<"Virtual">>
    /\ pevents[1].monthYear = <<"June", " ", "2024">>
    /\ pevents[1].startDate[1] = "Monday"
    /\ pevents[1].guestStatus = <<"Confirmed">>

\* C15: whenever the text register_for_event reads after the register click
\* contains a confirmation phrase, that step returns success = true to the
\* handler and the call has made the one click only.
C15_ConfirmedAfterFirstClick ==
    [][\A t \in Tasks :
          (/\ th[t].pc = "evt_clicked"
           /\ th'[t] # th[t]
           /\ \E word \in FirstVocabulary :
                 Contains(lower(th'[t].page_text), word))
          => /\ th'[t].pc = "done"
             /\ th'[t].resp = "200"
             /\ th'[t].ret.success = "True"
             /\ th'[t].clicks = 1]_vars

\* C15 witness: a call has returned success after one click on a page that
\* reads "Registration Complete".
C15_Witness ==
    \E t \in Tasks :
        /\ th[t].pc = "done"
        /\ th[t].op = "register_for_event"
        /\ th[t].page_text = <<"Registration", " ", "Complete">>
        /\ th[t].clicks = 1
        /\ th[t].ret.success = "True"

C17_AtMostTwoClicks ==
    \A t \in Tasks :
        /\ th[t].clicks <= 2
        /\ (/\ th[t].pc = "done"
            /\ th[t].clicks >= 1
            /\ \A word \in FirstVocabulary :
                  ~Contains(lower(th[t].page_text), word))
           => /\ th[t].resp = "200"
              /\ th[t].ret.success = "False"
              /\ th[t].ret.error = ""
              /\ th[t].ret.page_text = th[t].page_text

\* C17 witness: a call has clicked the register and the confirm control and
\* returned failure with the text "Please confirm".
C17_Witness ==
    \E t \in Tasks :
        /\ th[t].pc = "done"
        /\ th[t].clicks = 2
        /\ th[t].page_text = <<"Please", " ", "confirm">>
        /\ th[t].ret.success = "False"
        /\ th[t].ret.page_text = <<"Please", " ", "confirm">>

\* The parts of a complete snapshot, in the order full_sync is to run them.
SnapshotParts ==
    <<"get_personal_snapshot", "get_my_registrations", "get_upcoming_events",
      "search_events", "get_my_groups">>

\* C18: a /api/hub/sync request ends either with status 200, after all five
\* sub-extractions have returned, and then the snapshot file is written
\* once, or with an error and the file untouched; no other step writes the
\* file.
C18_AllOrNothingSync ==
    [][/\ \A t \in Tasks :
            (th[t].op = "full_sync" /\ th[t].pc # "done" /\ th'[t].pc = "done")
            => \/ /\ th'[t].resp = "200"
                  /\ th'[t].returned = SnapshotParts
                  /\ cache_writes' = cache_writes + 1
               \/ /\ th'[t].resp \notin {"none", "200"}
                  /\ cache_writes' = cache_writes
       /\ cache_writes' # cache_writes
          => \E t \in Tasks :
                /\ th[t].op = "full_sync"
                /\ th[t].pc # "done"
                /\ th'[t].pc = "done"
                /\ th'[t].resp = "200"]_vars

\* C18 witness: one sync has written the file, and a later sync has ended
\* with an error after some of its sub-extractions had returned.
C18_Witness ==
    /\ cache_writes = 1
    /\ \E t \in Tasks :
          /\ th[t].op = "full_sync"
          /\ th[t].pc = "done"
          /\ th[t].resp = "Timeout"
          /\ Len(th[t].returned) >= 1

\* s is an initial part of u.
IsPrefix(s, u) == Len(s) <= Len(u) /\ s = SubSeq(u, 1, Len(s))

\* C19: in a full_sync call the sub-extractions entered so far are an
\* initial part of snapshot, registrations, upcoming events, event search,
\* groups; all of them but possibly the last have returned; and none is
\* entered before ensure_logged_in has returned.
C19_FixedOrder ==
    \A t \in Tasks :
        th[t].op = "full_sync" =>
            /\ IsPrefix(th[t].ran, SnapshotParts)
            /\ IsPrefix(th[t].returned, th[t].ran)
            /\ Len(th[t].ran) <= Len(th[t].returned) + 1
            /\ th[t].ran # <<>> => th[t].ensured

\* C19 witness: a full_sync call has run all five sub-extractions and
\* returned.
C19_Witness ==
    \E t \in Tasks :
        /\ th[t].op = "full_sync"
        /\ th[t].pc = "done"
        /\ th[t].resp = "200"
        /\ th[t].ran = SnapshotParts
        /\ th[t].returned = SnapshotParts

\* C20: in each of the three pagination loops, the step that looks for a
\* next-page control and finds none ends the loop: get_my_registrations and
\* search_members return to the handler, which answers 200, and
\* search_by_profession returns to harvest(); the pages parsed so far are
\* what is returned.
C20_MissingNextControlStops ==
    [][/\ \A t \in Tasks :
            (th[t].next_ctl # "missing" /\ th'[t].next_ctl = "missing")
            => /\ th[t].pc \in {"reg_next", "mem_next"}
               /\ th'[t].pc = "done"
               /\ th'[t].resp = "200"
               /\ th'[t].returned = <<th[t].cur>>
               /\ th'[t].parsed = th[t].parsed
               /\ th'[t].page_num = th[t].page_num
       /\ (hctl # "missing" /\ hctl' = "missing")
          => /\ hpc = "next"
             /\ hpc' = "collect"
             /\ hiter' = hiter]_vars

\* C20 witness: a get_my_registrations call has returned its two pages
\* after it found no Next link on the second, and search_by_profession has
\* returned after it found no control on a page that reported more pages.
C20_Witness ==
    /\ th[1].op = "get_my_registrations"
    /\ th[1].next_ctl = "missing"
    /\ th[1].parsed = 2
    /\ th[1].resp = "200"
    /\ hctl = "missing"
    /\ hpc = "collect"
    /\ hiter >= 2
    /\ hpage[1] < hpage[2]

\* The value of a single-quoted string literal of the page's script whose
\* source text between the quotes is src: a backslash takes the next
\* character with it ("n" after a backslash is a line feed), a bare quote
\* ends the literal early and a backslash at the end leaves it open.
RECURSIVE Unescape(_)
Unescape(src) ==
    IF src = <<>> THEN [ok |-> TRUE, text |-> <<>>]
    ELSE IF Head(src) = "'" THEN [ok |-> FALSE, text |-> <<>>]
    ELSE IF Head(src) = "\\"
         THEN IF Len(src) < 2 THEN [ok |-> FALSE, text |-> <<>>]
              ELSE LET rest == Unescape(SubSeq(src, 3, Len(src)))
                       c == IF src[2] = "n" THEN "\n" ELSE src[2]
                   IN  [ok |-> rest.ok, text |-> <<c>> \o rest.text]
         ELSE LET rest == Unescape(Tail(src))
              IN  [ok |-> rest.ok, text |-> <<Head(src)>> \o rest.text]

\* C21: for every text of backslashes, single quotes and ordinary
\* characters, reading esc's result as the source of a single-quoted string
\* literal gives the text back.
C21_EscapeRoundTrips ==
    xpc = "done" => Unescape(esc_out) = [ok |-> TRUE, text |-> esc_in]

\* A text with a backslash right before a quote and an ordinary character
\* has been escaped.
C21_Witness ==
    /\ xpc = "done"
    /\ esc_in = <<"\\", "'", "n">>
    /\ esc_out = <<"\\", "\\", "\\", "'", "n">>

\* The text of a page between its first start marker and the first end
\* marker after it, without the line feeds js_block puts next to the markers.
Between(page) ==
    LET i == Find(START_MARKER, page, 1)
        j == IF i = 0 THEN 0 ELSE Find(END_MARKER, page, i + 1)
    IN  IF i = 0 \/ j < i + 3 THEN <<>> ELSE SubSeq(page, i + 2, j - 2)

\* C22: when embed() has written the page, the text between the markers
\* is the array literal build_js_array(contacts) returns, whether the block
\* was inserted or replaced.
C22_BlockIsArrayLiteral ==
    epc = "done" => Between(written) = build_js_array(contacts)

\* C23: a request whose endpoint met an internal exception is answered
\* with status 500 and the exception's message as the detail, at every
\* endpoint, the read of the cached snapshot included.
C23_ExceptionAnsweredWithMessage ==
    \A t \in Tasks :
        (th[t].pc = "done" /\ th[t].exc # "none")
            => (th[t].status = 500 /\ th[t].detail = th[t].exc)

\* C24: a pagination loop that stops because it found no next control
\* was on a page with none of the three: no link with "Next" in its text,
\* none with "Next" in its title, none with the next page number as text.
C24_StopsOnlyWithoutAnyNextLink ==
    /\ \A t \in Tasks : th[t].next_ctl = "missing" => th[t].links = {}
    /\ hctl = "missing" => hlinks = {}

\* C25: when login() has seen the page still on the login URL after the
\* submit, logged_in is False when login() ends, by its return or by an
\* error of the diagnostic screenshot, whatever logged_in was before.
C25_StillOnLoginEndsLoggedOut ==
    [][\A t \in Tasks :
         (th[t].pc = "login_shot_fail" /\ th'[t].pc # "login_shot_fail")
             => ~logged_in']_vars

\* C26: a HubBot that get_bot() has returned to a handler has completed
\* launch(): its page handle is set.
C26_ReturnedBotIsLaunched ==
    \A t \in Tasks : th[t].got > 0 => bot = "ready"

\* C27: the pages_scraped value get_my_registrations returns (its
\* page_num) is the number of result pages it parsed, on every exit of
\* the loop.
C27_PagesScrapedIsPagesParsed ==
    \A t \in Tasks :
        (th[t].pc = "done" /\ th[t].op = "get_my_registrations"
         /\ th[t].status = 200)
            => th[t].page_num = th[t].parsed

\* Some record of the result has the (eventName, startDate) pair of evt.
InResult(evt) ==
    \E k \in 1..Len(unique_events) : SamePair(unique_events[k], evt)

\* C28: the dedupe never merges records of different identity: of two
\* scraped records whose (eventName, startDate) pairs differ, both pairs
\* are in the result, also when a name or a date text contains "|".
C28_DistinctPairsBothKept ==
    dpc = "done"
        => \A i \in 1..Len(all_events), j \in 1..Len(all_events) :
               ~SamePair(all_events[i], all_events[j])
                   => InResult(all_events[i]) /\ InResult(all_events[j])

\* C29: close() in the finally block of harvest() does not raise, whatever
\* launch() left of the bot: harvest() ends with the error that was
\* pending when the block was entered, or returns when none was.
C29_CloseKeepsOriginalError ==
    hpc = "closed"
        => hexit = (IF hpending = "none" THEN "returned" ELSE hpending)
====
